---- MODULE Spec2Model ----
(***************************************************************************)
(* Client resilience layer of the trading dashboard:                       *)
(*   - AdvancedCache  (src/src/hooks/usePerformance.ts)                    *)
(*   - retryWithBackoff of useNetworkRecovery                              *)
(*                    (src/src/hooks/useNetworkRecovery.ts)                *)
(*   - enhancedFetch and the default retryCondition (same file)            *)
(*   - useHyperliquidWebSocket, the stream manager (src/unnamed/part_004)  *)
(*   - useRateLimit   (src/src/hooks/useNetworkRecovery.ts)                *)
(*   - the network monitor of useNetworkRecovery (same file)               *)
(*   - HyperliquidAPI, its response cache (src/src/types/hyperliquid.ts)   *)
(* Time is a virtual clock `now` (Date.now()), in model ticks.             *)
(* Every await of retryWithBackoff is a point where other callbacks run:   *)
(* a call is a small process with a position pc.                           *)
(***************************************************************************)
EXTENDS Integers, Sequences, FiniteSets, TLC

\* ------------------------------------------------------------------ bounds
\* the clock runs from 0 to MaxTime
MaxTime == 3
\* get() is called at most MaxGets times (hitCount + missCount)
MaxGets == 3
\* one call invokes its operation at most MaxInvoked times
MaxInvoked == 6

\* config.defaultTTL, in ticks of the model's clock
DefaultTTL == 2

\* maxRequests and windowMs as a caller passes them (the defaults are 100 and
\* 60000), the window in ticks of the clock
MaxRequests == 2

WindowMs == 3

\* DEFAULT_RETRY_CONFIG
MaxRetries == 3
InitialDelay == 1000
MaxDelay == 30000
BackoffMultiplier == 2

\* DEFAULT_RETRY_CONFIG, the fields of the delay schedule
DefaultRetryConfig ==
    [initialDelay |-> InitialDelay, maxDelay |-> MaxDelay,
     backoffMultiplier |-> BackoffMultiplier]

Keys == {"a", "b", "c"}
SmallKeys == {"a", "b"}
\* values of config.maxSize
SizeCfgs == {0, 1, 2}
Tags == {"x", "y"}
TagSets == {{}, {"x"}, {"y"}, {"x", "y"}}
\* ttl arguments handed to set(); 0 is a number a caller may pass
TTLArgs == {0, 1}

\* concurrent callers of retryWithBackoff, the operation ids they pass, and the
\* errors an operation rejects with
Calls == {"c1", "c2"}
OpIds == {"x", "y"}
Errors == {"network", "http5xx", "http4xx"}

VARIABLES
    cache,      \* Map<string, CacheEntry> as the sequence of its entries in insertion order
    now,        \* Date.now()
    hitCount,
    missCount,
    maxSize,    \* config.maxSize
    enableLRU,  \* config.enableLRU
    ret,        \* the last cache call and what it returned
    retryAttempts,  \* retryAttemptsRef.current: Map<operationId, number>
    isOnline,       \* networkStatus.isOnline, the state the monitor reports
    pc,             \* per call: idle | running (awaiting operation()) |
                    \*   waiting (awaiting the delay timer) | done | failed
    opId,           \* per call: its operationId
    online,         \* per call: networkStatus.isOnline as the callback closed over it
    attempts,       \* per call: the const `attempts` of the current invocation
    invoked,        \* per call: how often operation() was invoked
    lastErr,        \* per call: the error caught last
    delay,          \* per call: the delay of the pending timer, 0 when none
    solo,           \* per call: no other call with its id was in flight with it
    retryConfig,    \* the hook's config: DEFAULT_RETRY_CONFIG overlaid with options.retryConfig
    delays,         \* the delays a failing call has waited, in order
    response,       \* what fetch() resolved with: [status, statusText], or none yet
    thrown,         \* message of the Error the fetch wrapper threw, <<>> when none
    retryable,      \* what config.retryCondition(error) returned, <<>> before it is asked
    socks,          \* every WebSocket created so far, in order of creation
    wsRef,          \* wsRef.current: an index into socks, 0 for null
    wsState,        \* the hook's state: isConnected, isConnecting, reconnectCount, error
    timers,         \* pending setTimeout(connect) timers
    heartbeat,      \* heartbeatTimeoutRef.current holds a running interval
    subTimers,      \* pending setTimeout(() => subscribe(s), 100) timers, per subscription
    pings,          \* pings sent since the last pong (or open)
    fatal,          \* onError('Failed to reconnect after maximum attempts') was called
    failures,       \* unexpected closes of the current socket since the last open or operator call
    wanted,         \* subscriptions the caller added by subscribe and did not remove
    operatorOff,    \* disconnect() was the operator's last call
    requests,       \* requestsRef.current: the timestamps the limiter holds
    limited,        \* what isRateLimited() just returned, <<>> when it was not just called
    recorded,       \* every timestamp trackRequest() recorded, in order
    maxRequests,    \* the maxRequests argument of useRateLimit
    remaining,      \* what getRemainingRequests() just returned, <<>> when it was not just called
    lastMessage,    \* state.lastMessage, the frame handed to onMessage last
    wsConfig,       \* the stream manager's config: reconnectAttempts, reconnectInterval
    reconnectDelays,    \* the delays handleClose computed for attempts 0, 1, 2, ...
    hostOnline,     \* navigator.onLine
    networkStatus,  \* the monitor's state: isOnline, isRecovering, connectionQuality
    probes,         \* fetches in flight: quality probes, recovery probes
    recoveryTimers, \* pending setTimeout(attemptRecovery) timers: the one
                    \*   recoveryTimeoutRef.current holds, the ones it forgot
    mounted,        \* the hook is mounted (its effect cleanup did not run for good)
    notified,       \* how often the last step called onConnectionRestored
    isTestnet,      \* config.isTestnet of HyperliquidAPI
    apiCache,       \* HyperliquidAPI.cache: per cache key its entry, <<>> when absent
    inflight,       \* requests awaiting makeRequest: [key, net]
    returned        \* what a market-data getter returned last: [key, net], <<>> before

cacheVars == <<cache, now, hitCount, missCount, maxSize, enableLRU, ret>>

retryVars == <<retryAttempts, isOnline, pc, opId, online, attempts, invoked,
               lastErr, delay, solo>>

backoffVars == <<retryConfig, delays>>

fetchVars == <<response, thrown, retryable>>

streamVars == <<socks, wsRef, wsState, timers, heartbeat, subTimers, pings,
                fatal, failures, wanted, operatorOff, lastMessage>>

limiterVars == <<requests, limited, recorded, maxRequests, remaining>>

delayVars == <<wsConfig, reconnectDelays>>

monitorVars == <<hostOnline, networkStatus, probes, recoveryTimers, mounted,
                 notified>>

apiVars == <<isTestnet, apiCache, inflight, returned>>

\* the components added last, which the older ones never touch
newerVars == <<delayVars, monitorVars, apiVars>>

\* what the cache does not touch, what retryWithBackoff does not touch, ...
otherThanCache ==
    <<retryVars, backoffVars, fetchVars, streamVars, limiterVars,
      newerVars>>

otherThanRetry ==
    <<cacheVars, backoffVars, fetchVars, streamVars, limiterVars,
      newerVars>>

otherThanBackoff ==
    <<cacheVars, retryVars, fetchVars, streamVars, limiterVars,
      newerVars>>

otherThanFetch ==
    <<cacheVars, retryVars, backoffVars, streamVars, limiterVars,
      newerVars>>

otherThanStream ==
    <<cacheVars, retryVars, backoffVars, fetchVars, limiterVars,
      newerVars>>

\* the limiter reads the clock and nothing else of the cache
otherThanLimiter ==
    <<cache, hitCount, missCount, maxSize, enableLRU, ret,
      retryVars, backoffVars, fetchVars, streamVars, newerVars>>

olderVars == <<retryVars, backoffVars, fetchVars, streamVars, limiterVars>>

otherThanDelay == <<cacheVars, olderVars, monitorVars, apiVars>>

otherThanMonitor == <<cacheVars, olderVars, delayVars, apiVars>>

\* the API reads the clock and nothing else of the cache
otherThanApi ==
    <<cache, hitCount, missCount, maxSize, enableLRU, ret,
      olderVars, delayVars, monitorVars>>

vars == <<cache, now, hitCount, missCount, maxSize, enableLRU, ret,
          retryAttempts, isOnline, pc, opId, online, attempts, invoked,
          lastErr, delay, solo, retryConfig, delays, response, thrown, retryable,
          socks, wsRef, wsState, timers, heartbeat, subTimers, pings,
          fatal, failures, wanted, operatorOff, requests, limited, recorded,
          maxRequests, remaining, lastMessage, wsConfig, reconnectDelays,
          hostOnline, networkStatus, probes, recoveryTimers, mounted, notified,
          isTestnet, apiCache, inflight, returned>>

\* ------------------------------------------------------------------ helpers
Min(a, b) == IF a < b THEN a ELSE b
Max(a, b) == IF a > b THEN a ELSE b

CacheKeys(c) == {c[i].key : i \in 1..Len(c)}

Has(c, k) == k \in CacheKeys(c)

IndexOf(c, k) == CHOOSE i \in 1..Len(c) : c[i].key = k

Entry(c, k) == c[IndexOf(c, k)]

\* Map.delete(key)
MapDelete(c, k) == SelectSeq(c, LAMBDA e : e.key # k)

\* Map.set(key, entry): an existing key keeps its place, a new key goes last
MapSet(c, e) ==
    IF Has(c, e.key)
    THEN [i \in 1..Len(c) |-> IF c[i].key = e.key THEN e ELSE c[i]]
    ELSE Append(c, e)

\* now - entry.timestamp > entry.ttl
Expired(e, t) == t - e.timestamp > e.ttl

\* a sort that puts the later of two equal elements first
InsertSortedTiesFirst(s, e) ==
    LET later == {i \in 1..Len(s) : s[i].lastAccessed >= e.lastAccessed}
        p == IF later = {} THEN Len(s) + 1
             ELSE CHOOSE i \in later : \A j \in later : i <= j
    IN SubSeq(s, 1, p - 1) \o <<e>> \o SubSeq(s, p, Len(s))

\* Array.prototype.sort((a, b) => a.lastAccessed - b.lastAccessed): stable
InsertSorted(s, e) ==
    LET later == {i \in 1..Len(s) : s[i].lastAccessed > e.lastAccessed}
        p == IF later = {} THEN Len(s) + 1
             ELSE CHOOSE i \in later : \A j \in later : i <= j
    IN SubSeq(s, 1, p - 1) \o <<e>> \o SubSeq(s, p, Len(s))

RECURSIVE SortByLastAccessed(_)
SortByLastAccessed(s) ==
    IF s = <<>> THEN <<>>
    ELSE InsertSorted(SortByLastAccessed(SubSeq(s, 1, Len(s) - 1)), s[Len(s)])

\* eviction in insertion order, without the sort
ToRemoveUnsorted(c, m) ==
    {c[i].key : i \in 1..Min(Max(Len(c) - m, 0), Len(c))}

\* entries.slice(0, size - maxSize), as the keys to delete
ToRemove(c, m) ==
    LET sorted == SortByLastAccessed(c)
        n == Min(Max(Len(c) - m, 0), Len(c))
    IN {sorted[i].key : i \in 1..n}

\* the guard of the LRU pass
LRUNeeded(c, lru, m) == lru /\ Len(c) > m

\* cleanup(): drop the expired entries, then evict least recently used ones
Cleanup(c, t, lru, m) ==
    LET live == SelectSeq(c, LAMBDA e : ~Expired(e, t))
        gone == ToRemove(live, m)
    IN IF LRUNeeded(live, lru, m)
       THEN SelectSeq(live, LAMBDA e : e.key \notin gone)
       ELSE live

\* ttl || this.config.defaultTTL
EffectiveTTL(given, ttl) == IF given /\ ttl # 0 THEN ttl ELSE DefaultTTL

NewEntry(k, v, given, ttl, tags, t) ==
    [key |-> k, data |-> v, timestamp |-> t, ttl |-> EffectiveTTL(given, ttl),
     accessCount |-> 0, lastAccessed |-> t, tags |-> tags]

\* a size test that is off by one
OverLimitOffByOne(c, m) == Len(c) > m + 1

\* the size test that triggers the eviction pass in set()
OverLimit(c, m) == Len(c) > m

SetResult(c, k, v, given, ttl, tags, t, lru, m) ==
    LET c1 == MapSet(c, NewEntry(k, v, given, ttl, tags, t))
    IN IF OverLimit(c1, m) THEN Cleanup(c1, t, lru, m) ELSE c1

\* ------------------------------------------------------------------ cache actions
\* the default retry config, no failing call yet
IdleBackoff ==
    /\ retryConfig = DefaultRetryConfig
    /\ delays = <<>>

\* enhancedFetch not called yet
IdleFetch ==
    /\ response = [status |-> 0, statusText |-> <<>>]
    /\ thrown = <<>>
    /\ retryable = <<>>

\* subscription types
Subs == {"userEvents", "trades"}

\* useHyperliquidWebSocket not mounted
IdleStream ==
    /\ socks = <<>>
    /\ wsRef = 0
    /\ wsState = [isConnected |-> FALSE, isConnecting |-> FALSE,
                  reconnectCount |-> 0, error |-> "none"]
    /\ timers = <<>>
    /\ heartbeat = FALSE
    /\ subTimers = [s \in Subs |-> 0]
    /\ pings = 0
    /\ fatal = FALSE
    /\ failures = 0
    /\ wanted = {}
    /\ operatorOff = FALSE
    /\ lastMessage = "none"

\* useRateLimit(MaxRequests, WindowMs) mounted, nothing recorded
IdleLimiter ==
    /\ requests = <<>>
    /\ limited = <<>>
    /\ recorded = <<>>
    /\ maxRequests = MaxRequests
    /\ remaining = <<>>

\* DEFAULT_CONFIG of the stream manager: reconnectAttempts
DefaultReconnectAttempts == 5

\* no close event handled yet
IdleDelay ==
    /\ wsConfig = [reconnectAttempts |-> DefaultReconnectAttempts,
                   reconnectInterval |-> 3000]
    /\ reconnectDelays = <<>>

\* the monitor of useNetworkRecovery before it is mounted
IdleMonitor ==
    /\ hostOnline = TRUE
    /\ networkStatus = [isOnline |-> TRUE, isRecovering |-> FALSE,
                        connectionQuality |-> "excellent"]
    /\ probes = [quality |-> 0, recovery |-> 0]
    /\ recoveryTimers = [held |-> 0, forgotten |-> 0]
    /\ mounted = FALSE
    /\ notified = 0

\* cache keys of the market-data getters: getCacheKey(method, params)
ApiKeys == {"allMids", "meta"}

\* new HyperliquidAPI(): mainnet, an empty cache
IdleApi ==
    /\ isTestnet = FALSE
    /\ apiCache = [k \in ApiKeys |-> <<>>]
    /\ inflight = {}
    /\ returned = <<>>

\* useNetworkRecovery mounted, online, no call made yet
InitRetry ==
    /\ retryAttempts = <<>>
    /\ isOnline = TRUE
    /\ pc = [c \in Calls |-> "idle"]
    /\ opId = [c \in Calls |-> "x"]
    /\ online = [c \in Calls |-> TRUE]
    /\ attempts = [c \in Calls |-> 0]
    /\ invoked = [c \in Calls |-> 0]
    /\ lastErr = [c \in Calls |-> "none"]
    /\ delay = [c \in Calls |-> 0]
    /\ solo = [c \in Calls |-> TRUE]

\* the cache on its own: an AdvancedCache is a plain object, no hook is mounted
\* and no API object exists, so the variables of those components hold nothing
NoHooks ==
    /\ retryAttempts = <<>>
    /\ isOnline = <<>>
    /\ pc = <<>>
    /\ opId = <<>>
    /\ online = <<>>
    /\ attempts = <<>>
    /\ invoked = <<>>
    /\ lastErr = <<>>
    /\ delay = <<>>
    /\ solo = <<>>
    /\ retryConfig = <<>>
    /\ delays = <<>>
    /\ response = <<>>
    /\ thrown = <<>>
    /\ retryable = <<>>
    /\ socks = <<>>
    /\ wsRef = <<>>
    /\ wsState = <<>>
    /\ timers = <<>>
    /\ heartbeat = <<>>
    /\ subTimers = <<>>
    /\ pings = <<>>
    /\ fatal = <<>>
    /\ failures = <<>>
    /\ wanted = <<>>
    /\ operatorOff = <<>>
    /\ lastMessage = <<>>
    /\ requests = <<>>
    /\ limited = <<>>
    /\ recorded = <<>>
    /\ maxRequests = <<>>
    /\ remaining = <<>>
    /\ wsConfig = <<>>
    /\ reconnectDelays = <<>>
    /\ hostOnline = <<>>
    /\ networkStatus = <<>>
    /\ probes = <<>>
    /\ recoveryTimers = <<>>
    /\ mounted = <<>>
    /\ notified = <<>>
    /\ isTestnet = <<>>
    /\ apiCache = <<>>
    /\ inflight = <<>>
    /\ returned = <<>>

Init ==
    /\ cache = <<>>
    /\ now = 0
    /\ hitCount = 0
    /\ missCount = 0
    /\ maxSize \in SizeCfgs
    /\ enableLRU \in BOOLEAN
    /\ ret = [op |-> "none"]
    /\ NoHooks

\* set(key, data, ttl?, tags)
Set(k, v, given, ttl, tags) ==
    /\ cache' = SetResult(cache, k, v, given, ttl, tags, now, enableLRU, maxSize)
    /\ ret' = [op |-> "set", key |-> k, data |-> v, ttlGiven |-> given,
               ttlArg |-> ttl,
               evicted |-> (CacheKeys(cache) \cup {k}) \ CacheKeys(cache')]
    /\ UNCHANGED <<now, hitCount, missCount, maxSize, enableLRU>>
    /\ UNCHANGED otherThanCache

\* get(key): a missing key
GetMissing(k) ==
    /\ hitCount + missCount < MaxGets
    /\ ~Has(cache, k)
    /\ missCount' = missCount + 1
    /\ ret' = [op |-> "get", key |-> k, hit |-> FALSE]
    /\ UNCHANGED <<cache, now, hitCount, maxSize, enableLRU>>
    /\ UNCHANGED otherThanCache

\* get(key): an expired entry is deleted and reported as a miss
GetExpired(k) ==
    /\ hitCount + missCount < MaxGets
    /\ Has(cache, k)
    /\ Expired(Entry(cache, k), now)
    /\ cache' = MapDelete(cache, k)
    /\ missCount' = missCount + 1
    /\ ret' = [op |-> "get", key |-> k, hit |-> FALSE]
    /\ UNCHANGED <<now, hitCount, maxSize, enableLRU>>
    /\ UNCHANGED otherThanCache

\* a hit that also restarts the entry's life
TouchedRefresh(e, t) ==
    [e EXCEPT !.accessCount = e.accessCount + 1, !.lastAccessed = t, !.timestamp = t]

\* the entry as get() leaves it on a hit
Touched(e, t) == [e EXCEPT !.accessCount = e.accessCount + 1, !.lastAccessed = t]

\* get(key): a hit
GetHit(k) ==
    /\ hitCount + missCount < MaxGets
    /\ Has(cache, k)
    /\ ~Expired(Entry(cache, k), now)
    /\ cache' = MapSet(cache, Touched(Entry(cache, k), now))
    /\ hitCount' = hitCount + 1
    /\ ret' = [op |-> "get", key |-> k, hit |-> TRUE, data |-> Entry(cache, k).data]
    /\ UNCHANGED <<now, missCount, maxSize, enableLRU>>
    /\ UNCHANGED otherThanCache

\* invalidate(key)
Invalidate(k) ==
    /\ cache' = MapDelete(cache, k)
    /\ ret' = [op |-> "invalidate", key |-> k, existed |-> Has(cache, k)]
    /\ UNCHANGED <<now, hitCount, missCount, maxSize, enableLRU>>
    /\ UNCHANGED otherThanCache

\* a loop that stops at the first entry it deletes
InvalidateByTagFirstOnly(c, tag) ==
    LET hits == {i \in 1..Len(c) : tag \in c[i].tags}
    IN IF hits = {} THEN <<c, 0>>
       ELSE <<MapDelete(c, c[CHOOSE i \in hits : \A j \in hits : i <= j].key), 1>>

\* the loop of invalidateByTag over the map, entry by entry: <<map, count>>
RECURSIVE TagLoop(_, _, _, _)
TagLoop(c, i, tag, acc) ==
    IF i > Len(c) THEN acc
    ELSE IF tag \in c[i].tags
         THEN TagLoop(c, i + 1, tag, <<MapDelete(acc[1], c[i].key), acc[2] + 1>>)
         ELSE TagLoop(c, i + 1, tag, acc)

InvalidateByTagResult(c, tag) == TagLoop(c, 1, tag, <<c, 0>>)

\* invalidateByTag(tag)
InvalidateByTag(tag) ==
    /\ cache' = InvalidateByTagResult(cache, tag)[1]
    /\ ret' = [op |-> "invalidateByTag", tag |-> tag,
               count |-> InvalidateByTagResult(cache, tag)[2]]
    /\ UNCHANGED <<now, hitCount, missCount, maxSize, enableLRU>>
    /\ UNCHANGED otherThanCache

\* the setInterval callback of startCleanup
Sweep ==
    /\ cache' = Cleanup(cache, now, enableLRU, maxSize)
    /\ ret' = [op |-> "sweep"]
    /\ UNCHANGED <<now, hitCount, missCount, maxSize, enableLRU>>
    /\ UNCHANGED otherThanCache

\* the clock
Tick ==
    /\ now < MaxTime
    /\ now' = now + 1
    /\ UNCHANGED <<cache, hitCount, missCount, maxSize, enableLRU, ret>>
    /\ UNCHANGED otherThanCache

\* set() with a ttl, set() without one
SetAny(keys, vals, tagsets) ==
    \/ \E k \in keys, v \in vals, ttl \in TTLArgs, tags \in tagsets :
          Set(k, v, TRUE, ttl, tags)
    \/ \E k \in keys, v \in vals, tags \in tagsets : Set(k, v, FALSE, 0, tags)

Get(keys) ==
    \/ \E k \in keys : GetMissing(k)
    \/ \E k \in keys : GetExpired(k)
    \/ \E k \in keys : GetHit(k)

\* the cache under set/get/invalidate, the sweep and the clock (untagged entries)
CacheNext(keys) ==
    \/ SetAny(keys, {"v1"}, {{}})
    \/ Get(keys)
    \/ \E k \in keys : Invalidate(k)
    \/ Sweep
    \/ Tick

\* DEFAULT_CACHE_CONFIG.enableLRU
InitLRU == Init /\ enableLRU

Next == CacheNext(Keys)

Spec == InitLRU /\ [][Next]_vars

\* any configuration, two keys
NextConfig == CacheNext(SmallKeys)

SpecConfig == Init /\ [][NextConfig]_vars

\* any configuration, two keys, two values: set with a ttl and without one,
\* get on a live entry, and the clock
NextFresh ==
    \/ \E k \in SmallKeys, v \in {"v1", "v2"} : Set(k, v, TRUE, 1, {})
    \/ \E k \in SmallKeys, v \in {"v1", "v2"} : Set(k, v, FALSE, 0, {})
    \/ \E k \in SmallKeys : GetHit(k)
    \/ Tick

SpecFresh == Init /\ [][NextFresh]_vars

\* ------------------------------------------------------------------ steps, as seen from outside
\* a step of set(): only the clock leaves ret as it is
SetStep == ret'.op = "set" /\ now' = now /\ cacheVars' # cacheVars

\* a step of get()
GetStep == hitCount' + missCount' # hitCount + missCount

\* a step of invalidateByTag()
TagStep == ret'.op = "invalidateByTag" /\ now' = now /\ cacheVars' # cacheVars

\* lastAccessed of key k as the eviction pass of a set() step sees it
SeenLastAccessed(k) ==
    IF k = ret'.key THEN now ELSE Entry(cache, k).lastAccessed

\* the set() step ran the eviction pass
SetOverLimit ==
    SetStep /\ Cardinality(CacheKeys(cache) \cup {ret'.key}) > maxSize

\* the cache with tagged entries and room for all keys, at one instant of the clock
InitTags ==
    /\ cache = <<>>
    /\ now = 0
    /\ hitCount = 0
    /\ missCount = 0
    /\ maxSize = Cardinality(Keys)
    /\ enableLRU = TRUE
    /\ ret = [op |-> "none"]
    /\ InitRetry
    /\ IdleBackoff
    /\ IdleFetch
    /\ IdleStream
    /\ IdleLimiter
    /\ IdleDelay
    /\ IdleMonitor
    /\ IdleApi

NextTags ==
    \/ \E k \in Keys, tags \in TagSets : Set(k, "v1", FALSE, 0, tags)
    \/ \E tag \in Tags : InvalidateByTag(tag)
    \/ \E k \in Keys : GetMissing(k)
    \/ \E k \in Keys : GetHit(k)

SpecTags == InitTags /\ [][NextTags]_vars

\* ------------------------------------------------------------------ retryWithBackoff
RECURSIVE Pow(_, _)
Pow(b, n) == IF n = 0 THEN 1 ELSE b * Pow(b, n - 1)

\* retryAttemptsRef.current.get(operationId) || 0
Lookup(m, id) == IF id \in DOMAIN m THEN m[id] ELSE 0

\* retryAttemptsRef.current.set(operationId, n)
MapPut(m, id, n) == [i \in DOMAIN m \cup {id} |-> IF i = id THEN n ELSE m[i]]

\* retryAttemptsRef.current.delete(operationId)
MapRemove(m, id) == [i \in DOMAIN m \ {id} |-> m[i]]

\* DEFAULT_RETRY_CONFIG.retryCondition, on the classes of error
RetryCondition(err) == err \in {"network", "http5xx"}

\* a retry test that forgets the error class
ShouldRetryAnyError(att, err, on) == att < MaxRetries /\ on

\* a retry test that counts attempts, not retries
ShouldRetryCountingAttempts(att, err, on) ==
    att + 1 < MaxRetries /\ RetryCondition(err) /\ on

\* attempts < maxRetries && retryCondition(error) && networkStatus.isOnline
ShouldRetry(att, err, on) == att < MaxRetries /\ RetryCondition(err) /\ on

\* a delay without the cap
BackoffDelayUncapped(cfg, att) == cfg.initialDelay * Pow(cfg.backoffMultiplier, att)

\* Math.min(config.initialDelay * Math.pow(config.backoffMultiplier, attempts),
\*          config.maxDelay)
BackoffDelay(cfg, att) ==
    Min(cfg.initialDelay * Pow(cfg.backoffMultiplier, att), cfg.maxDelay)

\* the delay under DEFAULT_RETRY_CONFIG
RetryDelay(att) == BackoffDelay(DefaultRetryConfig, att)

InFlight(c) == pc[c] \in {"running", "waiting"}

\* a give-up path that leaves the counter behind
AfterGiveUpKeep(m, id) == m

\* the map after the call gave up: retryAttemptsRef.current.delete(operationId)
AfterGiveUp(m, id) == MapRemove(m, id)

\* retryWithBackoff(operation, operationId) is called: it reads the counter and
\* invokes operation(); the callback is the one of the current render
Execute(c, id) ==
    /\ ~InFlight(c)
    /\ pc' = [pc EXCEPT ![c] = "running"]
    /\ opId' = [opId EXCEPT ![c] = id]
    /\ online' = [online EXCEPT ![c] = isOnline]
    /\ attempts' = [attempts EXCEPT ![c] = Lookup(retryAttempts, id)]
    /\ invoked' = [invoked EXCEPT ![c] = 1]
    /\ lastErr' = [lastErr EXCEPT ![c] = "none"]
    /\ delay' = [delay EXCEPT ![c] = 0]
    /\ solo' = [d \in Calls |->
                 IF d = c THEN \A e \in Calls \ {c} : ~(InFlight(e) /\ opId[e] = id)
                 ELSE IF InFlight(d) /\ opId[d] = id THEN FALSE
                 ELSE solo[d]]
    /\ UNCHANGED <<retryAttempts, isOnline>>
    /\ UNCHANGED otherThanRetry

\* operation() resolves
OpSucceed(c) ==
    /\ pc[c] = "running"
    /\ retryAttempts' = MapRemove(retryAttempts, opId[c])
    /\ pc' = [pc EXCEPT ![c] = "done"]
    /\ UNCHANGED <<isOnline, opId, online, attempts, invoked, lastErr, delay, solo>>
    /\ UNCHANGED otherThanRetry

\* operation() rejects with err: the catch block
OpFail(c, err) ==
    /\ pc[c] = "running"
    /\ lastErr' = [lastErr EXCEPT ![c] = err]
    /\ IF ShouldRetry(attempts[c], err, online[c])
       THEN /\ retryAttempts' = MapPut(retryAttempts, opId[c], attempts[c] + 1)
            /\ delay' = [delay EXCEPT ![c] = RetryDelay(attempts[c])]
            /\ pc' = [pc EXCEPT ![c] = "waiting"]
       ELSE /\ retryAttempts' = AfterGiveUp(retryAttempts, opId[c])
            /\ delay' = [delay EXCEPT ![c] = 0]
            /\ pc' = [pc EXCEPT ![c] = "failed"]
    /\ UNCHANGED <<isOnline, opId, online, attempts, invoked, solo>>
    /\ UNCHANGED otherThanRetry

\* the delay timer fires: return retryWithBackoff(operation, operationId), the
\* same callback again, which reads the counter and invokes operation()
TimerFire(c) ==
    /\ pc[c] = "waiting"
    /\ invoked[c] < MaxInvoked
    /\ attempts' = [attempts EXCEPT ![c] = Lookup(retryAttempts, opId[c])]
    /\ invoked' = [invoked EXCEPT ![c] = invoked[c] + 1]
    /\ delay' = [delay EXCEPT ![c] = 0]
    /\ pc' = [pc EXCEPT ![c] = "running"]
    /\ UNCHANGED <<retryAttempts, isOnline, opId, online, lastErr, solo>>
    /\ UNCHANGED otherThanRetry

\* handleOffline: networkStatus.isOnline becomes false
HandleOffline ==
    /\ isOnline
    /\ isOnline' = FALSE
    /\ UNCHANGED <<retryAttempts, pc, opId, online, attempts, invoked, lastErr,
                   delay, solo>>
    /\ UNCHANGED otherThanRetry

\* handleOnline: networkStatus.isOnline becomes true
HandleOnline ==
    /\ ~isOnline
    /\ isOnline' = TRUE
    /\ UNCHANGED <<retryAttempts, pc, opId, online, attempts, invoked, lastErr,
                   delay, solo>>
    /\ UNCHANGED otherThanRetry

NextRetry ==
    \/ \E c \in Calls, id \in OpIds : Execute(c, id)
    \/ \E c \in Calls : OpSucceed(c)
    \/ \E c \in Calls, err \in Errors : OpFail(c, err)
    \/ \E c \in Calls : TimerFire(c)
    \/ HandleOffline
    \/ HandleOnline

\* the hook, next to a cache nobody calls
SpecRetry == InitTags /\ [][NextRetry]_vars

\* ------------------------------------------------------------------ the delay schedule
\* the retry number of the last delay computed runs from 0 to MaxAttempt
MaxAttempt == 6

\* configs a caller passes as options.retryConfig (multipliers of at least 1)
RetryConfigs ==
    [initialDelay : {500, InitialDelay, 2000},
     maxDelay : {10000, MaxDelay},
     backoffMultiplier : {1, BackoffMultiplier, 3}]

InitBackoff ==
    /\ retryConfig \in RetryConfigs
    /\ delays = <<>>

\* one more retryable failure of a call whose limit is not reached, online:
\* `attempts` is the number of delays waited so far, and the catch block
\* computes the next delay from it
FailAgain ==
    /\ Len(delays) <= MaxAttempt
    /\ delays' = Append(delays, BackoffDelay(retryConfig, Len(delays)))
    /\ UNCHANGED retryConfig
    /\ UNCHANGED otherThanBackoff

InitSchedule ==
    /\ cache = <<>>
    /\ now = 0
    /\ hitCount = 0
    /\ missCount = 0
    /\ maxSize = Cardinality(Keys)
    /\ enableLRU = TRUE
    /\ ret = [op |-> "none"]
    /\ InitRetry
    /\ InitBackoff
    /\ IdleFetch
    /\ IdleStream
    /\ IdleLimiter
    /\ IdleDelay
    /\ IdleMonitor
    /\ IdleApi

NextBackoff == FailAgain

SpecBackoff == InitSchedule /\ [][NextBackoff]_vars

\* ------------------------------------------------------------------ enhancedFetch and retryCondition
\* strings are sequences of characters, so that a pattern is tested against
\* the text the wrapper builds
UpperCase ==
    <<"A", "B", "C", "D", "E", "F", "G", "H", "I", "J", "K", "L", "M",
      "N", "O", "P", "Q", "R", "S", "T", "U", "V", "W", "X", "Y", "Z">>

LowerCase ==
    <<"a", "b", "c", "d", "e", "f", "g", "h", "i", "j", "k", "l", "m",
      "n", "o", "p", "q", "r", "s", "t", "u", "v", "w", "x", "y", "z">>

Digits == <<"0", "1", "2", "3", "4", "5", "6", "7", "8", "9">>

\* the i flag of a pattern: letters compare in lower case
ToLower(c) ==
    IF \E i \in 1..Len(UpperCase) : UpperCase[i] = c
    THEN LowerCase[CHOOSE i \in 1..Len(UpperCase) : UpperCase[i] = c]
    ELSE c

\* \d
IsDigit(c) == \E i \in 1..Len(Digits) : Digits[i] = c

\* Number.prototype.toString of a three-digit status, in a template literal
StatusToString(st) ==
    <<Digits[(st \div 100) + 1], Digits[((st \div 10) % 10) + 1], Digits[(st % 10) + 1]>>

\* /word/i.test(msg)
TestWord(word, msg) ==
    \E i \in 1..(Len(msg) - Len(word) + 1) :
        \A j \in 1..Len(word) : ToLower(msg[i + j - 1]) = word[j]

\* /5\d{2}/.test(msg)
TestFiveXX(msg) ==
    \E i \in 1..(Len(msg) - 2) :
        msg[i] = "5" /\ IsDigit(msg[i + 1]) /\ IsDigit(msg[i + 2])

\* /network/i, /timeout/i, /connection/i, /fetch/i, /cors/i
RetryableWords ==
    {<<"n", "e", "t", "w", "o", "r", "k">>,
     <<"t", "i", "m", "e", "o", "u", "t">>,
     <<"c", "o", "n", "n", "e", "c", "t", "i", "o", "n">>,
     <<"f", "e", "t", "c", "h">>,
     <<"c", "o", "r", "s">>}

\* retryablePatterns.some(pattern => pattern.test(error.message))
TestMessage(msg) ==
    \/ \E w \in RetryableWords : TestWord(w, msg)
    \/ TestFiveXX(msg)

\* the statuses a server answers with
HttpStatuses == 200..599

\* response.ok
ResponseOk(st) == st \in 200..299

\* the reason phrase servers send with the status over HTTP/1.1
ReasonPhrase(st) ==
    CASE st = 400 -> \* Bad Request
        <<"B", "a", "d", " ", "R", "e", "q", "u", "e", "s", "t">>
      [] st = 401 -> \* Unauthorized
        <<"U", "n", "a", "u", "t", "h", "o", "r", "i", "z", "e", "d">>
      [] st = 403 -> \* Forbidden
        <<"F", "o", "r", "b", "i", "d", "d", "e", "n">>
      [] st = 404 -> \* Not Found
        <<"N", "o", "t", " ", "F", "o", "u", "n", "d">>
      [] st = 408 -> \* Request Timeout
        <<"R", "e", "q", "u", "e", "s", "t", " ", "T", "i", "m", "e", "o", "u",
          "t">>
      [] st = 429 -> \* Too Many Requests
        <<"T", "o", "o", " ", "M", "a", "n", "y", " ", "R", "e", "q", "u", "e",
          "s", "t", "s">>
      [] st = 500 -> \* Internal Server Error
        <<"I", "n", "t", "e", "r", "n", "a", "l", " ", "S", "e", "r", "v", "e",
          "r", " ", "E", "r", "r", "o", "r">>
      [] st = 502 -> \* Bad Gateway
        <<"B", "a", "d", " ", "G", "a", "t", "e", "w", "a", "y">>
      [] st = 503 -> \* Service Unavailable
        <<"S", "e", "r", "v", "i", "c", "e", " ", "U", "n", "a", "v", "a", "i",
          "l", "a", "b", "l", "e">>
      [] st = 504 -> \* Gateway Timeout
        <<"G", "a", "t", "e", "w", "a", "y", " ", "T", "i", "m", "e", "o", "u",
          "t">>
      [] OTHER -> <<>>

\* response.statusText: the reason phrase, or empty (HTTP/2 carries none)
StatusTexts(st) == {<<>>, ReasonPhrase(st)}

\* `HTTP ${response.status}: ${response.statusText}`
HttpErrorMessage(st, text) ==
    <<"H", "T", "T", "P", " ">> \o StatusToString(st) \o <<":", " ">> \o text

\* 'Network unavailable'
NetworkUnavailable ==
    <<"N", "e", "t", "w", "o", "r", "k", " ",
      "u", "n", "a", "v", "a", "i", "l", "a", "b", "l", "e">>

\* the previous call of the wrapper's operation is over
FetchIdle == thrown = <<>> \/ retryable # <<>>

\* the operation of enhancedFetch while the hook is offline: it throws before fetch()
FetchOffline ==
    /\ FetchIdle
    /\ response' = [status |-> 0, statusText |-> <<>>]
    /\ thrown' = NetworkUnavailable
    /\ retryable' = <<>>
    /\ UNCHANGED otherThanFetch

\* the operation of enhancedFetch, fetch() resolving with a response: a
\* response that is not ok is thrown as an Error
FetchResolve(st, text) ==
    /\ FetchIdle
    /\ response' = [status |-> st, statusText |-> text]
    /\ thrown' = IF ResponseOk(st) THEN <<>> ELSE HttpErrorMessage(st, text)
    /\ retryable' = <<>>
    /\ UNCHANGED otherThanFetch

\* the catch block of retryWithBackoff asks config.retryCondition(error)
Classify ==
    /\ thrown # <<>>
    /\ retryable = <<>>
    /\ retryable' = <<TestMessage(thrown)>>
    /\ UNCHANGED <<response, thrown>>
    /\ UNCHANGED otherThanFetch

InitFetch ==
    /\ cache = <<>>
    /\ now = 0
    /\ hitCount = 0
    /\ missCount = 0
    /\ maxSize = Cardinality(Keys)
    /\ enableLRU = TRUE
    /\ ret = [op |-> "none"]
    /\ InitRetry
    /\ IdleBackoff
    /\ IdleFetch
    /\ IdleStream
    /\ IdleLimiter
    /\ IdleDelay
    /\ IdleMonitor
    /\ IdleApi

NextFetch ==
    \/ FetchOffline
    \/ \E st \in HttpStatuses : \E text \in StatusTexts(st) : FetchResolve(st, text)
    \/ Classify

SpecFetch == InitFetch /\ [][NextFetch]_vars

\* ------------------------------------------------------------------ useHyperliquidWebSocket
\* at most MaxSockets sockets are created
MaxSockets == 3
\* at most MaxTimers connect timers are pending when reconnect() is called
MaxTimers == 2
\* at most MaxPings pings stay unanswered
MaxPings == 4
\* the count of subscribe messages per socket and subscription stops at MaxSent
MaxSent == 2

\* wsConfig.reconnectAttempts, as a caller configures it (the default is 5)
ReconnectAttempts == 2

\* wsConfig.reconnectInterval
ReconnectInterval == 3000

\* the delay of reconnect(): setTimeout(connect, 1000)
ManualDelay == 1000

\* wsConfig.subscriptions of useUserDataStream
ConfigSubs == <<"userEvents">>

\* codes of a close event: a normal closure, an abnormal one
CloseCodes == {1000, 1006}

\* new WebSocket(url) with onclose = a handleClose that saw reconnectCount = cap
NewSocket(cap) ==
    [rs |-> "connecting", cap |-> cap, code |-> 0,
     sent |-> [s \in Subs |-> 0], data |-> FALSE]

\* wsRef.current?.readyState === WebSocket.OPEN
IsOpen(ss, ref) == ref # 0 /\ ss[ref].rs = "open"

\* sendMessage({method: 'subscribe', ...}): sent on wsRef.current when it is open
SendSubscribe(ss, ref, s) ==
    IF IsOpen(ss, ref)
    THEN [ss EXCEPT ![ref].sent[s] = Min(@ + 1, MaxSent)]
    ELSE ss

\* sendMessage({method: 'unsubscribe', ...}): the server drops the subscription
SendUnsubscribe(ss, ref, s) ==
    IF IsOpen(ss, ref) THEN [ss EXCEPT ![ref].sent[s] = 0] ELSE ss

\* ws.close(1000, ...): an open socket closes normally; a socket closed before
\* it is established reports the code the browser gives it
CloseSocket(ss, ref, code) ==
    IF ref = 0 THEN ss
    ELSE IF ss[ref].rs = "open" THEN [ss EXCEPT ![ref].rs = "closing", ![ref].code = 1000]
    ELSE IF ss[ref].rs = "connecting"
         THEN [ss EXCEPT ![ref].rs = "closing", ![ref].code = code]
    ELSE ss

\* reconnectTimeoutRef.current = <a new timer>: the ref forgets the older ones
Untracked(ts) == [k \in 1..Len(ts) |-> [ts[k] EXCEPT !.tracked = FALSE]]

\* clearTimeout(reconnectTimeoutRef.current)
ClearTracked(ts) == SelectSeq(ts, LAMBDA t : ~t.tracked)

RemoveAt(ts, k) == SubSeq(ts, 1, k - 1) \o SubSeq(ts, k + 1, Len(ts))

\* how often subscription s is in wsConfig.subscriptions
ConfigCount(s) == Cardinality({k \in 1..Len(ConfigSubs) : ConfigSubs[k] = s})

\* state.reconnectCount as handleClose reads it: the value of the render that
\* created the callback
ClosureCount(cap, count) == cap

\* connect() of a render whose handleClose saw reconnectCount = cap
Connect(cap) ==
    IF IsOpen(socks, wsRef)
    THEN UNCHANGED <<socks, wsRef, wsState>>
    ELSE /\ socks' = Append(socks, NewSocket(cap))
         /\ wsRef' = Len(socks) + 1
         /\ wsState' = [wsState EXCEPT !.isConnecting = TRUE, !.error = "none"]

\* the hook after its mount effect ran connect() of the first render
InitStream ==
    /\ socks = <<NewSocket(0)>>
    /\ wsRef = 1
    /\ wsState = [isConnected |-> FALSE, isConnecting |-> TRUE,
                  reconnectCount |-> 0, error |-> "none"]
    /\ timers = <<>>
    /\ heartbeat = FALSE
    /\ subTimers = [s \in Subs |-> 0]
    /\ pings = 0
    /\ fatal = FALSE
    /\ failures = 0
    /\ wanted = {}
    /\ operatorOff = FALSE
    /\ lastMessage = "none"

\* the caller calls connect() of the current render
ManualConnect ==
    /\ ~IsOpen(socks, wsRef)
    /\ Len(socks) < MaxSockets
    /\ Connect(wsState.reconnectCount)
    /\ operatorOff' = FALSE
    /\ failures' = 0
    /\ fatal' = FALSE
    /\ UNCHANGED <<timers, heartbeat, subTimers, pings, wanted>>
    /\ UNCHANGED lastMessage
    /\ UNCHANGED otherThanStream

\* a setTimeout(connect) timer fires
ReconnectTimerFire(k) ==
    /\ k \in 1..Len(timers)
    /\ IsOpen(socks, wsRef) \/ Len(socks) < MaxSockets
    /\ timers' = RemoveAt(timers, k)
    /\ Connect(timers[k].cap)
    /\ UNCHANGED <<heartbeat, subTimers, pings, fatal, failures, wanted, operatorOff>>
    /\ UNCHANGED lastMessage
    /\ UNCHANGED otherThanStream

\* onopen of socket i: handleOpen
SocketOpen(i) ==
    /\ i \in 1..Len(socks)
    /\ socks[i].rs = "connecting"
    /\ socks' = [socks EXCEPT ![i].rs = "open"]
    /\ wsState' = [isConnected |-> TRUE, isConnecting |-> FALSE,
                   reconnectCount |-> 0, error |-> "none"]
    /\ subTimers' = [s \in Subs |-> subTimers[s] + ConfigCount(s)]
    /\ heartbeat' = TRUE
    /\ pings' = 0
    /\ failures' = 0
    /\ fatal' = FALSE
    /\ UNCHANGED <<wsRef, timers, wanted, operatorOff>>
    /\ UNCHANGED lastMessage
    /\ UNCHANGED otherThanStream

\* a closed socket: the server holds no subscription of it any more
ClosedSocket(sock) ==
    [sock EXCEPT !.rs = "closed", !.code = 0,
                 !.sent = [s \in Subs |-> 0], !.data = FALSE]

\* onclose of socket i with event.code = code: handleClose
HandleClose(i, code) ==
    LET count == ClosureCount(socks[i].cap, wsState.reconnectCount)
    IN /\ socks' = [socks EXCEPT ![i] = ClosedSocket(socks[i])]
       /\ heartbeat' = FALSE
       /\ IF code # 1000 /\ count < ReconnectAttempts
          THEN /\ wsState' = [isConnected |-> FALSE, isConnecting |-> FALSE,
                              reconnectCount |-> wsState.reconnectCount + 1,
                              error |-> "lost"]
               /\ timers' = Append(Untracked(timers),
                                   [cap |-> socks[i].cap, tracked |-> TRUE,
                                    delay |-> ReconnectInterval * 2 ^ count])
               /\ fatal' = fatal
          ELSE IF count >= ReconnectAttempts
          THEN /\ wsState' = [wsState EXCEPT !.isConnected = FALSE,
                                             !.isConnecting = FALSE,
                                             !.error = "failed"]
               /\ timers' = timers
               /\ fatal' = TRUE
          ELSE /\ wsState' = [wsState EXCEPT !.isConnected = FALSE,
                                             !.isConnecting = FALSE]
               /\ timers' = timers
               /\ fatal' = fatal
       /\ failures' = IF code # 1000 /\ i = wsRef THEN failures + 1 ELSE failures
       /\ pings' = 0
       /\ UNCHANGED <<wsRef, subTimers, wanted, operatorOff>>
       /\ UNCHANGED lastMessage
       /\ UNCHANGED otherThanStream

\* the handshake of socket i fails, or the server or the network ends an open
\* connection: a close event the operator did not ask for
ServerClose(i, code) ==
    /\ i \in 1..Len(socks)
    /\ \/ socks[i].rs = "connecting" /\ code # 1000
       \/ socks[i].rs = "open"
    /\ HandleClose(i, code)

\* the close event of a socket that disconnect() closed
OperatorClosed(i) ==
    /\ i \in 1..Len(socks)
    /\ socks[i].rs = "closing"
    /\ HandleClose(i, socks[i].code)

\* onerror of socket i: handleError
SocketError(i) ==
    /\ i \in 1..Len(socks)
    /\ socks[i].rs \in {"connecting", "open"}
    /\ wsState' = [wsState EXCEPT !.error = "error", !.isConnecting = FALSE]
    /\ UNCHANGED <<socks, wsRef, timers, heartbeat, subTimers, pings, fatal,
                   failures, wanted, operatorOff>>
    /\ UNCHANGED lastMessage
    /\ UNCHANGED otherThanStream

\* what disconnect() does to the refs and the state
DisconnectBody(code) ==
    /\ heartbeat' = FALSE
    /\ socks' = CloseSocket(socks, wsRef, code)
    /\ wsRef' = 0
    /\ wsState' = [isConnected |-> FALSE, isConnecting |-> FALSE,
                   reconnectCount |-> 0, error |-> "none"]
    /\ failures' = 0
    /\ fatal' = FALSE
    /\ pings' = 0

\* the caller calls disconnect()
Disconnect(code) ==
    /\ DisconnectBody(code)
    /\ timers' = ClearTracked(timers)
    /\ operatorOff' = TRUE
    /\ UNCHANGED <<subTimers, wanted>>
    /\ UNCHANGED lastMessage
    /\ UNCHANGED otherThanStream

\* the caller calls reconnect() of the current render: disconnect(), then
\* setTimeout(connect, 1000), a timer no ref holds
Reconnect(code) ==
    /\ Len(timers) < MaxTimers
    /\ DisconnectBody(code)
    /\ timers' = Append(ClearTracked(timers),
                        [cap |-> wsState.reconnectCount, tracked |-> FALSE,
                         delay |-> ManualDelay])
    /\ operatorOff' = FALSE
    /\ UNCHANGED <<subTimers, wanted>>
    /\ UNCHANGED lastMessage
    /\ UNCHANGED otherThanStream

\* the heartbeat interval fires: sendPing
HeartbeatFire ==
    /\ heartbeat
    /\ IsOpen(socks, wsRef)
    /\ pings < MaxPings
    /\ pings' = pings + 1
    /\ UNCHANGED <<socks, wsRef, wsState, timers, heartbeat, subTimers, fatal,
                   failures, wanted, operatorOff>>
    /\ UNCHANGED lastMessage
    /\ UNCHANGED otherThanStream

\* the server answers the ping: handleMessage with method 'pong'
Pong ==
    /\ IsOpen(socks, wsRef)
    /\ pings > 0
    /\ pings' = 0
    /\ UNCHANGED <<socks, wsRef, wsState, timers, heartbeat, subTimers, fatal,
                   failures, wanted, operatorOff>>
    /\ UNCHANGED lastMessage
    /\ UNCHANGED otherThanStream

\* a delayed subscribe of handleOpen fires: subscribe(subscription)
SubTimerFire(s) ==
    /\ subTimers[s] > 0
    /\ subTimers' = [subTimers EXCEPT ![s] = @ - 1]
    /\ socks' = SendSubscribe(socks, wsRef, s)
    /\ UNCHANGED <<wsRef, wsState, timers, heartbeat, pings, fatal, failures,
                   wanted, operatorOff>>
    /\ UNCHANGED lastMessage
    /\ UNCHANGED otherThanStream

\* the caller calls subscribe (subscribeToTrades, subscribeToUserEvents, ...)
Subscribe(s) ==
    /\ socks' = SendSubscribe(socks, wsRef, s)
    /\ wanted' = wanted \cup {s}
    /\ UNCHANGED <<wsRef, wsState, timers, heartbeat, subTimers, pings, fatal,
                   failures, operatorOff>>
    /\ UNCHANGED lastMessage
    /\ UNCHANGED otherThanStream

\* the caller calls unsubscribe
Unsubscribe(s) ==
    /\ socks' = SendUnsubscribe(socks, wsRef, s)
    /\ wanted' = wanted \ {s}
    /\ UNCHANGED <<wsRef, wsState, timers, heartbeat, subTimers, pings, fatal,
                   failures, operatorOff>>
    /\ UNCHANGED lastMessage
    /\ UNCHANGED otherThanStream

\* a data frame of a subscription the server holds arrives on socket i:
\* handleMessage hands it to onMessage
DataFrame(i) ==
    /\ i \in 1..Len(socks)
    /\ socks[i].rs = "open"
    /\ \E s \in Subs : socks[i].sent[s] > 0
    /\ socks' = [socks EXCEPT ![i].data = TRUE]
    /\ wsState' = [wsState EXCEPT !.error = "none"]
    /\ lastMessage' = "data"
    /\ UNCHANGED <<wsRef, timers, heartbeat, subTimers, pings, fatal, failures,
                   wanted, operatorOff>>
    /\ UNCHANGED otherThanStream

\* a frame JSON.parse rejects arrives on socket i (or the text 'null', whose
\* .method throws): the catch block of handleMessage
MalformedFrame(i) ==
    /\ i \in 1..Len(socks)
    /\ socks[i].rs = "open"
    /\ wsState' = [wsState EXCEPT !.error = "parse"]
    /\ UNCHANGED <<socks, wsRef, timers, heartbeat, subTimers, pings, fatal,
                   failures, wanted, operatorOff, lastMessage>>
    /\ UNCHANGED otherThanStream

\* a frame that parses and has no channel and no data (and is no pong) arrives
\* on socket i: handleMessage builds {channel: undefined, data: undefined},
\* stores it and hands it to onMessage
ShapelessFrame(i) ==
    /\ i \in 1..Len(socks)
    /\ socks[i].rs = "open"
    /\ wsState' = [wsState EXCEPT !.error = "none"]
    /\ lastMessage' = "shapeless"
    /\ UNCHANGED <<socks, wsRef, timers, heartbeat, subTimers, pings, fatal,
                   failures, wanted, operatorOff>>
    /\ UNCHANGED otherThanStream

InitManager ==
    /\ cache = <<>>
    /\ now = 0
    /\ hitCount = 0
    /\ missCount = 0
    /\ maxSize = Cardinality(Keys)
    /\ enableLRU = TRUE
    /\ ret = [op |-> "none"]
    /\ InitRetry
    /\ IdleBackoff
    /\ IdleFetch
    /\ InitStream
    /\ IdleLimiter
    /\ IdleDelay
    /\ IdleMonitor
    /\ IdleApi

\* the lifecycle of the connection: the sockets, the timers and the operator
NextStream ==
    \/ ManualConnect
    \/ \E k \in 1..MaxTimers + MaxSockets : ReconnectTimerFire(k)
    \/ \E i \in 1..MaxSockets : SocketOpen(i)
    \/ \E i \in 1..MaxSockets, code \in CloseCodes : ServerClose(i, code)
    \/ \E i \in 1..MaxSockets : OperatorClosed(i)
    \/ \E code \in CloseCodes : Disconnect(code)
    \/ \E code \in CloseCodes : Reconnect(code)
    \/ HeartbeatFire
    \/ Pong
    \/ \E s \in Subs : SubTimerFire(s)

SpecStream == InitManager /\ [][NextStream]_vars

\* the subscriptions over connections that open, drop and come back
NextSubs ==
    \/ \E k \in 1..MaxTimers + MaxSockets : ReconnectTimerFire(k)
    \/ \E i \in 1..MaxSockets : SocketOpen(i)
    \/ \E i \in 1..MaxSockets, code \in CloseCodes : ServerClose(i, code)
    \/ \E i \in 1..MaxSockets : SocketError(i)
    \/ \E s \in Subs : SubTimerFire(s)
    \/ \E s \in Subs : Subscribe(s)
    \/ \E s \in Subs : Unsubscribe(s)
    \/ \E i \in 1..MaxSockets : DataFrame(i)
    \/ \E i \in 1..MaxSockets : MalformedFrame(i)
    \/ \E i \in 1..MaxSockets : ShapelessFrame(i)

SpecSubs == InitManager /\ [][NextSubs]_vars

\* ------------------------------------------------------------------ useRateLimit
\* the limiter's clock runs from 0 to MaxClock
MaxClock == 7
\* trackRequest() is called at most MaxTracked times
MaxTracked == 3

\* a window that still holds the timestamp at its start
InWindowClosed(time, t) == time >= t - WindowMs

\* time > windowStart, with windowStart = now - windowMs
InWindow(time, t) == time > t - WindowMs

\* isRateLimited(): prunes the old timestamps, then compares
IsRateLimited ==
    /\ requests' = SelectSeq(requests, LAMBDA time : InWindow(time, now))
    /\ limited' = <<Len(requests') >= maxRequests>>
    /\ remaining' = <<>>
    /\ UNCHANGED <<now, recorded, maxRequests>>
    /\ UNCHANGED otherThanLimiter

\* trackRequest()
TrackRequest ==
    /\ Len(recorded) < MaxTracked
    /\ requests' = Append(requests, now)
    /\ recorded' = Append(recorded, now)
    /\ limited' = <<>>
    /\ remaining' = <<>>
    /\ UNCHANGED <<now, maxRequests>>
    /\ UNCHANGED otherThanLimiter

\* the clock
LimiterTick ==
    /\ now < MaxClock
    /\ now' = now + 1
    /\ limited' = <<>>
    /\ remaining' = <<>>
    /\ UNCHANGED <<requests, recorded, maxRequests>>
    /\ UNCHANGED otherThanLimiter

InitLimiter ==
    /\ cache = <<>>
    /\ now = 0
    /\ hitCount = 0
    /\ missCount = 0
    /\ maxSize = Cardinality(Keys)
    /\ enableLRU = TRUE
    /\ ret = [op |-> "none"]
    /\ InitRetry
    /\ IdleBackoff
    /\ IdleFetch
    /\ IdleStream
    /\ IdleLimiter
    /\ IdleDelay
    /\ IdleMonitor
    /\ IdleApi

NextLimiter ==
    \/ IsRateLimited
    \/ TrackRequest
    \/ LimiterTick

SpecLimiter == InitLimiter /\ [][NextLimiter]_vars

\* values a caller passes as maxRequests: useRateLimit takes any number
LimitArgs == {-1, 0, 1, 2}

\* getRemainingRequests(): counts the timestamps of the window, prunes nothing
GetRemainingRequests ==
    /\ remaining' =
          <<Max(0, maxRequests
                     - Len(SelectSeq(requests, LAMBDA time : InWindow(time, now))))>>
    /\ limited' = <<>>
    /\ UNCHANGED <<now, requests, recorded, maxRequests>>
    /\ UNCHANGED otherThanLimiter

\* useRateLimit(maxRequests, WindowMs) mounted with any argument
InitLimiterArgs ==
    /\ cache = <<>>
    /\ now = 0
    /\ hitCount = 0
    /\ missCount = 0
    /\ maxSize = Cardinality(Keys)
    /\ enableLRU = TRUE
    /\ ret = [op |-> "none"]
    /\ InitRetry
    /\ IdleBackoff
    /\ IdleFetch
    /\ IdleStream
    /\ requests = <<>>
    /\ limited = <<>>
    /\ recorded = <<>>
    /\ maxRequests \in LimitArgs
    /\ remaining = <<>>
    /\ IdleDelay
    /\ IdleMonitor
    /\ IdleApi

NextLimiterArgs ==
    \/ IsRateLimited
    \/ TrackRequest
    \/ GetRemainingRequests
    \/ LimiterTick

SpecLimiterArgs == InitLimiterArgs /\ [][NextLimiterArgs]_vars

\* ------------------------------------------------------------------ the reconnect delay
\* configs a caller hands to useHyperliquidWebSocket, the default among them
WsConfigs ==
    [reconnectAttempts : {3, DefaultReconnectAttempts, 8, 10},
     reconnectInterval : {1000, 2000, 3000, 5000}]

\* const delay = wsConfig.reconnectInterval * Math.pow(2, state.reconnectCount)
ReconnectDelay(cfg, count) == cfg.reconnectInterval * 2 ^ count

\* a hook with any of the configs
InitDelay ==
    /\ wsConfig \in WsConfigs
    /\ reconnectDelays = <<>>

\* an unexpected close handled by a handleClose whose render saw
\* state.reconnectCount = count, one count after the other
CloseAgain(count) ==
    /\ count = Len(reconnectDelays)
    /\ count < wsConfig.reconnectAttempts
    /\ reconnectDelays' = Append(reconnectDelays, ReconnectDelay(wsConfig, count))
    /\ UNCHANGED wsConfig
    /\ UNCHANGED otherThanDelay

InitReconnect ==
    /\ cache = <<>>
    /\ now = 0
    /\ hitCount = 0
    /\ missCount = 0
    /\ maxSize = Cardinality(Keys)
    /\ enableLRU = TRUE
    /\ ret = [op |-> "none"]
    /\ InitRetry
    /\ IdleBackoff
    /\ IdleFetch
    /\ IdleStream
    /\ IdleLimiter
    /\ InitDelay
    /\ IdleMonitor
    /\ IdleApi

NextReconnect == \E count \in 0..9 : CloseAgain(count)

SpecReconnect == InitReconnect /\ [][NextReconnect]_vars

\* ------------------------------------------------------------------ the network monitor
\* at most MaxProbes quality probes are in flight
MaxProbes == 2
\* at most MaxLoops recovery loops are started and not yet ended
MaxLoops == 2

\* response times of the quality probe, in ms
ResponseTimes == {100, 1000, 2000}

\* the quality checkConnectionQuality derives from the response time
QualityOf(responseTime) ==
    IF responseTime < 500 THEN "excellent"
    ELSE IF responseTime < 1500 THEN "good"
    ELSE "poor"

\* recovery loops alive: attemptRecovery awaits its fetch, or its timer is pending
ActiveLoops ==
    probes.recovery + recoveryTimers.held + recoveryTimers.forgotten

\* the cleanup of the effect: clearTimeout(recoveryTimeoutRef.current)
ClearHeld(ts) == [ts EXCEPT !.held = 0]

\* recoveryTimeoutRef.current = setTimeout(attemptRecovery, retryDelay): the
\* ref forgets the timer it held
HoldNew(ts) == [held |-> 1, forgotten |-> ts.forgotten + ts.held]

\* the hook after its first render and its effect: isOnline is navigator.onLine,
\* the quality 'excellent'; the effect probes the quality when online
InitNetwork ==
    /\ hostOnline \in BOOLEAN
    /\ networkStatus = [isOnline |-> hostOnline, isRecovering |-> FALSE,
                        connectionQuality |-> "excellent"]
    /\ probes = [quality |-> IF hostOnline THEN 1 ELSE 0, recovery |-> 0]
    /\ recoveryTimers = [held |-> 0, forgotten |-> 0]
    /\ mounted = TRUE
    /\ notified = 0

\* the host fires 'online': handleOnline of the current render. Its
\* checkConnectionQuality is the one of that render, which saw isOnline = false
\* and only sets the quality to 'offline'; isOnline changed, so the effect runs
\* again: its cleanup clears the held timer, its body probes the quality
HostOnline ==
    /\ ~hostOnline
    /\ hostOnline' = TRUE
    /\ IF mounted
       THEN LET wasOffline == ~networkStatus.isOnline
            IN /\ wasOffline => probes.quality < MaxProbes
               /\ networkStatus' =
                     [isOnline |-> TRUE, isRecovering |-> FALSE,
                      connectionQuality |->
                          IF wasOffline THEN "offline"
                          ELSE networkStatus.connectionQuality]
               /\ notified' = IF wasOffline THEN 1 ELSE 0
               /\ probes' = IF wasOffline
                            THEN [probes EXCEPT !.quality = @ + 1]
                            ELSE probes
               /\ recoveryTimers' = IF wasOffline
                                    THEN ClearHeld(recoveryTimers)
                                    ELSE recoveryTimers
       ELSE /\ notified' = 0
            /\ UNCHANGED <<networkStatus, probes, recoveryTimers>>
    /\ UNCHANGED mounted
    /\ UNCHANGED otherThanMonitor

\* the host fires 'offline': handleOffline, which starts the recovery process
\* (enableAutoRetry is on): attemptRecovery() issues its first probe at once
HostOffline ==
    /\ hostOnline
    /\ hostOnline' = FALSE
    /\ IF mounted
       THEN /\ ActiveLoops < MaxLoops
            /\ networkStatus' = [isOnline |-> FALSE, isRecovering |-> TRUE,
                                 connectionQuality |-> "offline"]
            /\ probes' = [probes EXCEPT !.recovery = @ + 1]
            /\ recoveryTimers' = IF networkStatus.isOnline
                                 THEN ClearHeld(recoveryTimers)
                                 ELSE recoveryTimers
       ELSE UNCHANGED <<networkStatus, probes, recoveryTimers>>
    /\ notified' = 0
    /\ UNCHANGED mounted
    /\ UNCHANGED otherThanMonitor

\* the 30 s interval fires: checkConnectionQuality of the current render
QualityInterval ==
    /\ mounted
    /\ IF networkStatus.isOnline
       THEN /\ probes.quality < MaxProbes
            /\ probes' = [probes EXCEPT !.quality = @ + 1]
            /\ UNCHANGED networkStatus
       ELSE /\ networkStatus' = [networkStatus EXCEPT !.connectionQuality = "offline"]
            /\ UNCHANGED probes
    /\ notified' = 0
    /\ UNCHANGED <<hostOnline, recoveryTimers, mounted>>
    /\ UNCHANGED otherThanMonitor

\* setNetworkStatus(prev => ({...prev, connectionQuality: q})): nothing on an
\* unmounted component
SetQuality(q) ==
    IF mounted
    THEN networkStatus' = [networkStatus EXCEPT !.connectionQuality = q]
    ELSE UNCHANGED networkStatus

\* the fetch of a quality probe resolves after responseTime ms
QualityProbeResolve(responseTime) ==
    /\ probes.quality > 0
    /\ probes' = [probes EXCEPT !.quality = @ - 1]
    /\ SetQuality(QualityOf(responseTime))
    /\ notified' = 0
    /\ UNCHANGED <<hostOnline, recoveryTimers, mounted>>
    /\ UNCHANGED otherThanMonitor

\* the fetch of a quality probe rejects, or is aborted after 5000 ms
QualityProbeFail ==
    /\ probes.quality > 0
    /\ probes' = [probes EXCEPT !.quality = @ - 1]
    /\ SetQuality("poor")
    /\ notified' = 0
    /\ UNCHANGED <<hostOnline, recoveryTimers, mounted>>
    /\ UNCHANGED otherThanMonitor

\* the fetch of attemptRecovery resolves: when navigator.onLine is still false
\* the monitor declares itself online and calls onConnectionRestored; the loop
\* ends. When isOnline changes the effect runs again, as in HostOnline
RecoveryProbeResolve ==
    /\ probes.recovery > 0
    /\ IF hostOnline
       THEN /\ probes' = [probes EXCEPT !.recovery = @ - 1]
            /\ notified' = 0
            /\ UNCHANGED <<networkStatus, recoveryTimers>>
       ELSE /\ notified' = 1
            /\ IF mounted
               THEN LET wasOffline == ~networkStatus.isOnline
                    IN /\ wasOffline => probes.quality < MaxProbes
                       /\ networkStatus' = [networkStatus EXCEPT
                                               !.isOnline = TRUE,
                                               !.isRecovering = FALSE]
                       /\ probes' = [quality |-> IF wasOffline
                                                 THEN probes.quality + 1
                                                 ELSE probes.quality,
                                     recovery |-> probes.recovery - 1]
                       /\ recoveryTimers' = IF wasOffline
                                            THEN ClearHeld(recoveryTimers)
                                            ELSE recoveryTimers
               ELSE /\ probes' = [probes EXCEPT !.recovery = @ - 1]
                    /\ UNCHANGED <<networkStatus, recoveryTimers>>
    /\ UNCHANGED <<hostOnline, mounted>>
    /\ UNCHANGED otherThanMonitor

\* the fetch of attemptRecovery rejects, or is aborted after 3000 ms: the catch
\* block schedules the next attempt
RecoveryProbeFail ==
    /\ probes.recovery > 0
    /\ probes' = [probes EXCEPT !.recovery = @ - 1]
    /\ recoveryTimers' = HoldNew(recoveryTimers)
    /\ notified' = 0
    /\ UNCHANGED <<hostOnline, networkStatus, mounted>>
    /\ UNCHANGED otherThanMonitor

\* a setTimeout(attemptRecovery) timer fires: the next probe is issued
RecoveryTimerFire(which) ==
    /\ recoveryTimers[which] > 0
    /\ recoveryTimers' = [recoveryTimers EXCEPT ![which] = @ - 1]
    /\ probes' = [probes EXCEPT !.recovery = @ + 1]
    /\ notified' = 0
    /\ UNCHANGED <<hostOnline, networkStatus, mounted>>
    /\ UNCHANGED otherThanMonitor

\* the component unmounts: the cleanup removes the listeners, clears the held
\* timer and the interval
Unmount ==
    /\ mounted
    /\ mounted' = FALSE
    /\ recoveryTimers' = ClearHeld(recoveryTimers)
    /\ notified' = 0
    /\ UNCHANGED <<hostOnline, networkStatus, probes>>
    /\ UNCHANGED otherThanMonitor

InitMonitor ==
    /\ cache = <<>>
    /\ now = 0
    /\ hitCount = 0
    /\ missCount = 0
    /\ maxSize = Cardinality(Keys)
    /\ enableLRU = TRUE
    /\ ret = [op |-> "none"]
    /\ InitRetry
    /\ IdleBackoff
    /\ IdleFetch
    /\ IdleStream
    /\ IdleLimiter
    /\ IdleDelay
    /\ InitNetwork
    /\ IdleApi

NextMonitor ==
    \/ HostOnline
    \/ HostOffline
    \/ QualityInterval
    \/ \E responseTime \in ResponseTimes : QualityProbeResolve(responseTime)
    \/ QualityProbeFail
    \/ RecoveryProbeResolve
    \/ RecoveryProbeFail
    \/ \E which \in {"held", "forgotten"} : RecoveryTimerFire(which)
    \/ Unmount

SpecMonitor == InitMonitor /\ [][NextMonitor]_vars

\* ------------------------------------------------------------------ HyperliquidAPI
\* Date.now() of the API's cache, one tick of the clock being 1000 ms
ApiClock == now * 1000

\* the ttl each getter hands to setCache: getAllMids 2000, getMeta 60000
ApiTTL(k) == IF k = "allMids" THEN 2000 ELSE 60000

\* getFromCache(key): the entry when it is present and younger than its ttl,
\* null (<<>>) otherwise
GetFromCache(k) ==
    IF apiCache[k] # <<>> /\ ApiClock - apiCache[k].timestamp < apiCache[k].ttl
    THEN apiCache[k]
    ELSE <<>>

\* a market-data getter is called: a fresh cache entry is returned at once,
\* otherwise makeRequest posts to getBaseURL(), the network selected now
GetterCall(k) ==
    /\ IF GetFromCache(k) # <<>>
       THEN /\ returned' = [key |-> k, testnet |-> GetFromCache(k).testnet,
                            cached |-> TRUE]
            /\ UNCHANGED inflight
       ELSE /\ inflight' = inflight \cup {[key |-> k, testnet |-> isTestnet]}
            /\ returned' = <<>>
    /\ UNCHANGED <<now, isTestnet, apiCache>>
    /\ UNCHANGED otherThanApi

\* the request of a getter resolves: setCache(cacheKey, data, ttl), return data
RequestResolve(r) ==
    /\ r \in inflight
    /\ inflight' = inflight \ {r}
    /\ apiCache' = [apiCache EXCEPT ![r.key] =
                       [testnet |-> r.testnet, timestamp |-> ApiClock,
                        ttl |-> ApiTTL(r.key)]]
    /\ returned' = [key |-> r.key, testnet |-> r.testnet, cached |-> FALSE]
    /\ UNCHANGED <<now, isTestnet>>
    /\ UNCHANGED otherThanApi

\* the request of a getter fails: makeRequest throws, nothing is cached
RequestFail(r) ==
    /\ r \in inflight
    /\ inflight' = inflight \ {r}
    /\ returned' = <<>>
    /\ UNCHANGED <<now, isTestnet, apiCache>>
    /\ UNCHANGED otherThanApi

\* setTestnet(flag): selects the network, then clearCache()
SetTestnet(flag) ==
    /\ isTestnet' = flag
    /\ apiCache' = [k \in ApiKeys |-> <<>>]
    /\ returned' = <<>>
    /\ UNCHANGED <<now, inflight>>
    /\ UNCHANGED otherThanApi

\* the clock
ApiTick ==
    /\ now < MaxTime
    /\ now' = now + 1
    /\ returned' = <<>>
    /\ UNCHANGED <<isTestnet, apiCache, inflight>>
    /\ UNCHANGED otherThanApi

InitApi ==
    /\ cache = <<>>
    /\ now = 0
    /\ hitCount = 0
    /\ missCount = 0
    /\ maxSize = Cardinality(Keys)
    /\ enableLRU = TRUE
    /\ ret = [op |-> "none"]
    /\ InitRetry
    /\ IdleBackoff
    /\ IdleFetch
    /\ IdleStream
    /\ IdleLimiter
    /\ IdleDelay
    /\ IdleMonitor
    /\ IdleApi

NextApi ==
    \/ \E k \in ApiKeys : GetterCall(k)
    \/ \E r \in [key : ApiKeys, testnet : BOOLEAN] : RequestResolve(r)
    \/ \E r \in [key : ApiKeys, testnet : BOOLEAN] : RequestFail(r)
    \/ \E flag \in BOOLEAN : SetTestnet(flag)
    \/ ApiTick

SpecApi == InitApi /\ [][NextApi]_vars

\* ------------------------------------------------------------------ claims on the cache

\* C1 as stated: after every set() the store holds at most maxSize entries.
C1_SizeBoundAnyConfig == ret.op = "set" => Len(cache) <= maxSize

\* C1, amended: with enableLRU on (the default), the store holds at most maxSize
\* entries after every set() and after every other call.
C1_SizeBoundLRU == enableLRU => Len(cache) <= maxSize

\* a set() that went over the limit and evicted down to it
C1_Witness ==
    /\ enableLRU
    /\ ret.op = "set"
    /\ ret.evicted # {}
    /\ Len(cache) = maxSize

\* C2 as stated: get never returns an expired entry, and for every ttl passed to
\* set(k, v, ttl), a get(k) after the clock advanced by more than ttl is a miss
\* that removes the entry.
C2_TTLCorrect ==
    [][/\ (GetStep /\ ret'.hit) => ~Expired(Entry(cache, ret'.key), now)
       /\ ( /\ ret.op = "set" /\ ret.ttlGiven
            /\ GetStep /\ ret'.key = ret.key
            /\ Has(cache, ret.key)
            /\ now - Entry(cache, ret.key).timestamp > ret.ttlArg )
          => (~ret'.hit /\ ~Has(cache', ret.key))]_vars

\* C3 as stated: a set() that exceeds maxSize removes the entries with the oldest
\* lastAccessed, and after set(a); set(b); get(a) with maxSize = 2, set(c) leaves {a, c}.
C3_EvictsOldest ==
    [][/\ SetOverLimit =>
            \A r \in ret'.evicted, k \in CacheKeys(cache') :
                SeenLastAccessed(r) <= SeenLastAccessed(k)
       /\ ( /\ SetStep /\ ret'.key = "c" /\ maxSize = 2
            /\ Len(cache) = 2 /\ cache[1].key = "a" /\ cache[2].key = "b"
            /\ cache[1].accessCount = 1 /\ cache[2].accessCount = 0
            /\ cache[1].timestamp <= cache[2].timestamp
            /\ cache[2].timestamp <= cache[1].lastAccessed
            /\ ~Expired(cache[1], now) /\ ~Expired(cache[2], now) )
          => CacheKeys(cache') = {"a", "c"}]_vars

\* C3, amended: a set() that exceeds maxSize (enableLRU on) first removes every
\* expired entry; if the store is still over maxSize it removes just enough live
\* entries to get back to maxSize, none of them accessed later than an entry it
\* keeps; set(a); set(b); get(a); set(c) leaves {a, c} when the clock moved
\* between set(b) and get(a).
C3_EvictsExpiredThenOldest ==
    [][SetOverLimit =>
        LET seen == CacheKeys(cache) \cup {ret'.key}
            gone == {cache[i].key : i \in {j \in 1..Len(cache) :
                        cache[j].key # ret'.key /\ Expired(cache[j], now)}}
            live == seen \ gone
        IN /\ gone \subseteq ret'.evicted
           /\ Len(cache') = Min(maxSize, Cardinality(live))
           /\ \A r \in ret'.evicted \cap live, k \in CacheKeys(cache') :
                  SeenLastAccessed(r) <= SeenLastAccessed(k)
           /\ ( /\ ret'.key = "c" /\ maxSize = 2
                /\ Len(cache) = 2 /\ cache[1].key = "a" /\ cache[2].key = "b"
                /\ cache[1].lastAccessed > cache[2].lastAccessed
                /\ live = seen )
              => CacheKeys(cache') = {"a", "c"}]_vars

\* set(a); set(b); tick; get(a); set(c) with maxSize = 2 evicted b
C3_Witness ==
    /\ maxSize = 2
    /\ ret.op = "set" /\ ret.key = "c" /\ ret.evicted = {"b"}
    /\ CacheKeys(cache) = {"a", "c"}
    /\ Entry(cache, "a").accessCount = 1
    /\ Entry(cache, "a").lastAccessed > Entry(cache, "a").timestamp

\* C4: invalidateByTag(t) removes exactly the entries tagged t and returns how
\* many it removed.
C4_TagInvalidationExact ==
    [][TagStep =>
        /\ cache' = SelectSeq(cache, LAMBDA e : ret'.tag \notin e.tags)
        /\ ret'.count = Cardinality({k \in CacheKeys(cache) :
                                       ret'.tag \in Entry(cache, k).tags})]_vars

\* a:[x], b:[x,y], c:[y]; invalidateByTag(x) returned 2 and left c, which a get finds
C4_Witness ==
    /\ ret.op = "invalidateByTag" /\ ret.tag = "x" /\ ret.count = 2
    /\ CacheKeys(cache) = {"c"}
    /\ Entry(cache, "c").tags = {"y"}
    /\ ENABLED GetHit("c")

\* C5: no call but set() changes an entry's timestamp or ttl, so however often
\* an entry was read, a get after timestamp + ttl is a miss.
C5_OriginalTTLKept ==
    [][/\ \A k \in CacheKeys(cache) \cap CacheKeys(cache') :
            ~(SetStep /\ ret'.key = k) =>
                /\ Entry(cache', k).timestamp = Entry(cache, k).timestamp
                /\ Entry(cache', k).ttl = Entry(cache, k).ttl
       /\ ( /\ GetStep /\ Has(cache, ret'.key)
            /\ now > Entry(cache, ret'.key).timestamp + Entry(cache, ret'.key).ttl )
          => (~ret'.hit /\ ~Has(cache', ret'.key))]_vars

\* an entry read twice, the second time after the tick that created it, still
\* carries its first timestamp, has outlived its ttl, and the next get misses it
C5_Witness ==
    \E k \in Keys :
        /\ Has(cache, k)
        /\ Entry(cache, k).accessCount = 2
        /\ Entry(cache, k).lastAccessed > Entry(cache, k).timestamp
        /\ Expired(Entry(cache, k), now)
        /\ ENABLED GetExpired(k)

\* ------------------------------------------------------------------ claims on retryWithBackoff

\* the catch block of call c ran in this step
FailStep(c) == pc[c] = "running" /\ pc'[c] \in {"waiting", "failed"}

\* call c gave up on a retryable error with the network seen online and no other
\* call of its id beside it: only the attempt limit stopped it
Exhausted(c) ==
    /\ pc[c] = "failed"
    /\ RetryCondition(lastErr[c])
    /\ online[c]
    /\ solo[c]

\* C6 as stated: an operation that keeps failing with a retryable error, online,
\* with the limit at 3, is invoked exactly 3 times before the failure is returned.
C6_InvokedLimitTimes == \A c \in Calls : Exhausted(c) => invoked[c] = MaxRetries

\* C6, amended: it is invoked exactly maxRetries + 1 = 4 times, the first attempt
\* and 3 retries.
C6_InvokedLimitPlusOne == \A c \in Calls : Exhausted(c) => invoked[c] = MaxRetries + 1

\* a call that gave up after its retries, the monitor online
C6_Witness ==
    \E c \in Calls :
        /\ Exhausted(c)
        /\ isOnline
        /\ attempts[c] = MaxRetries
        /\ opId[c] \notin DOMAIN retryAttempts

\* C7 as stated: no two attempts of one operationId run at once, and no call's
\* operation is invoked more often than the attempt limit allows.
C7_PerIdSerialized ==
    /\ \A c, d \in Calls :
          (c # d /\ pc[c] = "running" /\ pc[d] = "running") => opId[c] # opId[d]
    /\ \A c \in Calls : invoked[c] <= MaxRetries + 1

C9_NoRetryWhileOffline ==
    [][\A c \in Calls : (FailStep(c) /\ ~isOnline) => pc'[c] = "failed"]_vars

\* C10: when no call of an operationId is in flight, the attempts map holds no
\* entry for it.
C10_NoEntryWhenIdle ==
    \A id \in OpIds :
        (\A c \in Calls : opId[c] = id => ~InFlight(c)) => id \notin DOMAIN retryAttempts

\* both calls used the same id, overlapped, retried and completed, one by
\* success and one by giving up
C10_Witness ==
    /\ pc["c1"] = "done" /\ pc["c2"] = "failed"
    /\ opId["c1"] = opId["c2"]
    /\ ~solo["c1"] /\ ~solo["c2"]
    /\ invoked["c1"] > 1 /\ invoked["c2"] > 1
    /\ retryAttempts = <<>>

\* ------------------------------------------------------------------ claims on the delay schedule

\* the schedule of the default config: 1000 doubling up to the cap of 30000
DefaultSchedule == <<1000, 2000, 4000, 8000, 16000, 30000, 30000>>

\* C11: the delay before retry number n is min(initialDelay * multiplier^n,
\* maxDelay); under the default config the delays of attempts 0..6 are 1000,
\* 2000, 4000, 8000, 16000, 30000, 30000 (and 30000 from then on); the sequence
\* never decreases and never exceeds maxDelay.
C11_BackoffSchedule ==
    /\ \A i \in 1..Len(delays) :
          /\ delays[i] = Min(retryConfig.initialDelay
                               * retryConfig.backoffMultiplier ^ (i - 1),
                             retryConfig.maxDelay)
          /\ delays[i] <= retryConfig.maxDelay
          /\ i > 1 => delays[i - 1] <= delays[i]
    /\ retryConfig = DefaultRetryConfig =>
          \A i \in 1..Len(delays) :
              delays[i] = IF i <= Len(DefaultSchedule) THEN DefaultSchedule[i] ELSE 30000

\* the default config after the failures of attempts 0..6
C11_Witness ==
    /\ retryConfig = DefaultRetryConfig
    /\ Len(delays) >= 7
    /\ SubSeq(delays, 1, 7) = <<1000, 2000, 4000, 8000, 16000, 30000, 30000>>

\* ------------------------------------------------------------------ claims on the classification

\* the wrapper threw an Error for a response with status st and it was classified
Classified(lo, hi) ==
    /\ retryable # <<>>
    /\ response.status \in lo..hi

\* C12 as stated: under the default policy the 'Network unavailable' error and
\* every 5xx response are retryable, a 429 response is retryable, and every
\* other 4xx response is fatal, whatever its status text.
C12_DefaultClassification ==
    /\ (retryable # <<>> /\ thrown = NetworkUnavailable) => retryable = <<TRUE>>
    /\ Classified(500, 599) => retryable = <<TRUE>>
    /\ Classified(429, 429) => retryable = <<TRUE>>
    /\ (Classified(400, 499) /\ response.status # 429) => retryable = <<FALSE>>

\* ------------------------------------------------------------------ claims on the stream manager

\* the close event of socket i ran handleClose in this step, and the operator
\* had not asked for it
UnexpectedClose(i) ==
    /\ i \in 1..Len(socks)
    /\ socks[i].rs \in {"connecting", "open"}
    /\ socks'[i].rs = "closed"

\* handleOpen of socket i ran in this step
OpenStep(i) ==
    /\ i \in 1..Len(socks)
    /\ socks[i].rs = "connecting"
    /\ socks'[i].rs = "open"

\* C13 as stated: once reconnectAttempts reconnect attempts in a row have failed
\* (the close that started them and one close per attempt, no open and no
\* operator call in between), the manager has called onError with the fatal
\* notification, holds no reconnect timer, has no socket under way and is not
\* connected.
C13_StopsAfterExhaustion ==
    failures > ReconnectAttempts =>
        /\ fatal
        /\ timers = <<>>
        /\ \A i \in 1..Len(socks) : socks[i].rs \notin {"connecting", "open"}
        /\ ~wsState.isConnected /\ ~wsState.isConnecting

\* C14 as stated: reconnectCount is 0 right after every open, goes up by one on
\* every unexpected close that is followed by a reconnect, and is the value
\* handleClose compares with reconnectAttempts and computes the delay from.
C14_CounterDrivesReconnect ==
    [][\A i \in 1..MaxSockets :
        /\ OpenStep(i) => wsState'.reconnectCount = 0
        /\ (UnexpectedClose(i) /\ failures' > failures) =>
              /\ socks[i].cap = wsState.reconnectCount
              /\ Len(timers') > Len(timers) =>
                    /\ wsState'.reconnectCount = wsState.reconnectCount + 1
                    /\ timers'[Len(timers')].delay =
                          ReconnectInterval * 2 ^ wsState.reconnectCount]_vars

\* C15 as stated: from disconnect() until the next connect() or reconnect(), no
\* socket is created, no delayed subscribe and no heartbeat fires, and the
\* manager is neither connected nor connecting.
C15_DisconnectIsFinal ==
    [][(operatorOff /\ operatorOff') =>
        /\ Len(socks') = Len(socks)
        /\ subTimers' = subTimers
        /\ pings' <= pings
        /\ ~wsState'.isConnected
        /\ ~wsState'.isConnecting]_vars

\* C16 as stated: on the open socket of a connected manager whose delayed
\* subscribes have all fired, every subscription the caller added by subscribe
\* and did not remove has been sent as a subscribe message.
C16_SubscriptionsReplayed ==
    ( /\ IsOpen(socks, wsRef)
      /\ wsState.isConnected
      /\ \A s \in Subs : subTimers[s] = 0 )
    => \A s \in wanted : socks[wsRef].sent[s] >= 1

\* C17 as stated: no socket carries more than one subscribe message for the
\* same subscription.
C17_OneSubscribePerConnect ==
    \A i \in 1..Len(socks) : \A s \in Subs : socks[i].sent[s] <= 1

\* C18 as stated: when the first data frame of a connection is handed to
\* onMessage, every configured subscription has been sent on that connection.
C18_ReplayBeforeData ==
    [][\A i \in 1..MaxSockets :
        (i <= Len(socks) /\ i <= Len(socks') /\ ~socks[i].data /\ socks'[i].data) =>
            \A k \in 1..Len(ConfigSubs) : socks[i].sent[ConfigSubs[k]] >= 1]_vars

\* C19 as stated: a connected manager has not let more than two heartbeat
\* intervals pass since its first unanswered ping.
C19_StaleConnectionLeft ==
    wsState.isConnected => pings - 1 <= 2

\* ------------------------------------------------------------------ claims on the rate limiter

\* C20: with maxRequests = N and window W (the window at time t being the
\* interval (t - W, t]), once exactly N requests are recorded, all inside one
\* window, isRateLimited() returns true at every time before oldest + W and
\* false from oldest + W on; in general it returns true exactly when at least
\* N recorded timestamps are less than W old.
C20_LimitedUntilOldestAgesOut ==
    limited # <<>> =>
        /\ limited[1] =
              (Cardinality({k \in 1..Len(recorded) : now - recorded[k] < WindowMs})
                  >= MaxRequests)
        /\ ( /\ Len(recorded) = MaxRequests
             /\ recorded[MaxRequests] - recorded[1] < WindowMs )
           => (limited[1] <=> now < recorded[1] + WindowMs)

\* N requests at different times of one window; at oldest + W exactly the
\* limiter has dropped the oldest and allows again
C20_Witness ==
    /\ Len(recorded) = MaxRequests
    /\ recorded[1] < recorded[MaxRequests]
    /\ recorded[MaxRequests] - recorded[1] < WindowMs
    /\ now = recorded[1] + WindowMs
    /\ limited = <<FALSE>>
    /\ Len(requests) = MaxRequests - 1

\* ------------------------------------------------------------------ claims of the third part
\* C21: a limiter whose maxRequests is zero or negative is rejected when it is
\* created, so it never answers an isRateLimited, trackRequest or
\* getRemainingRequests call.
C21_NonPositiveRejected ==
    maxRequests <= 0 => (limited = <<>> /\ remaining = <<>> /\ recorded = <<>>)

\* an offline-to-online transition of the monitor's state
CameOnline == ~networkStatus.isOnline /\ networkStatus'.isOnline

\* C22: every offline-to-online transition of the monitor calls
\* onConnectionRestored exactly once, and no other step of the mounted monitor
\* calls it: not a second detection of the same transition, not a step that
\* leaves the state online.
C22_NotifiedOncePerTransition ==
    [][mounted' => notified' = IF CameOnline THEN 1 ELSE 0]_vars

\* C23: the monitor turns offline only on the host's 'offline' signal (a failed
\* probe leaves it online), and while it is offline the quality is 'offline',
\* whatever probe result arrives.
C23_OnlyHostDeclaresOffline ==
    /\ [](~networkStatus.isOnline => networkStatus.connectionQuality = "offline")
    /\ [][(networkStatus.isOnline /\ ~networkStatus'.isOnline)
             => (hostOnline /\ ~hostOnline')]_vars

\* C28: at most one recovery loop is alive; once the monitor is online again or
\* unmounted no recovery timer is pending, and no step issues a recovery probe
\* unless it leaves the monitor mounted and offline.
C28_RecoveryBoundedByOffline ==
    /\ [](ActiveLoops <= 1)
    /\ []((networkStatus.isOnline \/ ~mounted)
             => recoveryTimers.held + recoveryTimers.forgotten = 0)
    /\ [][probes'.recovery > probes.recovery
             => (mounted' /\ ~networkStatus'.isOnline)]_vars

\* the schedule of the retry executor with the stream manager's interval as
\* the initial delay: min(reconnectInterval * 2^n, maxDelay)
CappedReconnectDelay(cfg, n) ==
    BackoffDelay([initialDelay |-> cfg.reconnectInterval, maxDelay |-> MaxDelay,
                  backoffMultiplier |-> 2], n)

\* C24: the delay before reconnect attempt n is min(reconnectInterval * 2^n,
\* maxDelay), so that no reconnect delay exceeds the cap, whatever the counter.
C24_ReconnectDelayCapped ==
    \A n \in 1..Len(reconnectDelays) :
        /\ reconnectDelays[n] = CappedReconnectDelay(wsConfig, n - 1)
        /\ reconnectDelays[n] <= MaxDelay

\* a step that reports a parse failure
ParseFailed == wsState'.error = "parse" /\ wsState.error # "parse"

\* C25: a frame that does not parse or has no channel and no data is never
\* handed to onMessage, starts no reconnect and leaves the connection as it
\* is: connected flag, reconnect counter, sockets.
C25_ProtocolErrorsDropped ==
    /\ [](lastMessage # "shapeless")
    /\ [][ParseFailed =>
             /\ UNCHANGED <<socks, wsRef, timers, lastMessage>>
             /\ wsState'.isConnected = wsState.isConnected
             /\ wsState'.reconnectCount = wsState.reconnectCount]_vars

\* the close event of a socket that disconnect() or reconnect() closed and
\* took out of wsRef is delivered
StaleClose(i) ==
    /\ i # wsRef
    /\ socks[i].rs = "closing"
    /\ socks'[i].rs = "closed"

\* C26: an event of a socket that disconnect() or reconnect() superseded does
\* not change the current connection: its late close event leaves the state
\* (isConnected of the new connection), the heartbeat timer and the reconnect
\* timers as they are.
C26_StaleEventsInert ==
    [][\A i \in 1..Len(socks) :
          StaleClose(i) => UNCHANGED <<wsState, heartbeat, timers>>]_vars

\* sockets of the manager that are connecting or open
LiveSockets == {i \in 1..Len(socks) : socks[i].rs \in {"connecting", "open"}}

\* C27: at every moment at most one socket of the manager is connecting or
\* open, whatever connect(), reconnect() and the reconnect timers do.
C27_SingleLiveSocket == Cardinality(LiveSockets) <= 1

\* C29: after setTestnet(flag) returned, a market-data getter that is called
\* and answers from the cache returns data of the network selected now, also
\* when a request to the other network was in flight during the switch.
C29_NoCrossNetworkReads ==
    (returned # <<>> /\ returned.cached) => returned.testnet = isTestnet

\* what get(k) returns on cache c at time t: <<data>> on a hit, <<>> for null
GetReturn(c, k, t) ==
    IF Has(c, k) /\ ~Expired(Entry(c, k), t) THEN <<Entry(c, k).data>> ELSE <<>>

\* C30: with maxSize >= 1, a get(k) right after set(k, v), the clock not
\* advanced, returns v: the eviction pass that set triggers never removes the
\* entry it has just stored, whatever the cache held before.
C30_FreshEntrySurvives ==
    [][(SetStep /\ maxSize >= 1) =>
          GetReturn(cache', ret'.key, now') = <<ret'.data>>]_vars

\* a set() in a full cache whose entries were all touched at this very tick:
\* the eviction pass ran, removed another key, and the new value is readable
C30_Witness ==
    /\ maxSize >= 1 /\ enableLRU
    /\ ret.op = "set" /\ ret.data = "v2"
    /\ ret.evicted # {} /\ ret.key \notin ret.evicted
    /\ Len(cache) = maxSize
    /\ \A i \in 1..Len(cache) : cache[i].lastAccessed = now
    /\ GetReturn(cache, ret.key, now) = <<"v2">>

====
